---- MODULE Spec2Model ----
(***************************************************************************)
(* One execution of the Jira vulnerability dashboard script (src/app.py):   *)
(* fetch the issues of the project, flatten them into rows, propagate the   *)
(* Epic Link of a task onto its sub-tasks, read the sidebar widgets, filter *)
(* the table, aggregate the progress of each epic, export the result.       *)
(*                                                                          *)
(* Python values are modelled as follows: a dict is a function, a list a    *)
(* sequence, a DataFrame the sequence of its rows, None the value None.     *)
(* A list that holds references to row dicts (task_map, subtask_map) holds  *)
(* the indices of those rows, so that a later mutation of a row is seen     *)
(* through the reference, as in Python.  The Summary column takes part in   *)
(* no computation and is left out.                                          *)
(***************************************************************************)
EXTENDS Integers, Sequences, FiniteSets, TLC

VARIABLES
    server,        \* the tracker: the issues of project VM
    outcome,       \* how the HTTP request of app.py:24 ended
    session,       \* "first": the widgets hold their defaults; "rerun": the user set them
    pc,            \* position of the script
    data,          \* app.py:32
    rows,          \* app.py:36 and, from line 67 on, df
    epic_map,      \* app.py:51
    task_map,      \* app.py:52
    subtask_map,   \* app.py:53
    widgets,       \* app.py:77-92, the values the sidebar widgets returned
    pinned_df,     \* filtered_df after app.py:102
    filtered_df,   \* filtered_df after app.py:110
    epic_summary,  \* app.py:148-158, the rows of the summary table
    excel_data,    \* app.py:170, the rows written to the sheet JiraData
    report         \* what the page shows instead of the dashboard: the warning
                   \* of app.py:69 or the exception that ended the script

vars == <<server, outcome, session, pc, data, rows, epic_map, task_map, subtask_map,
          widgets, pinned_df, filtered_df, epic_summary, excel_data, report>>

-----------------------------------------------------------------------------
(* Bounds of the model *)

\* at most this many issues in the project
MaxRecs == 2

\* the issue keys of the project, in the order Python sorts them
KeyList == <<"VM-1", "VM-2", "VM-3">>

Range(s) == {s[i] : i \in DOMAIN s}

Keys == Range(KeyList)

IssueTypes == {"Epic", "Task", "Sub-task"}

\* calendar days of the "created" stamps
Days == {1, 2}

-----------------------------------------------------------------------------
(* Python values *)

\* Python's None (a JSON null)
None == "<None>"

\* marks a field the tracker left out of the JSON object
ABSENT == "<absent>"

\* bool(v) of a string or None
Truthy(v) == v # "" /\ v # None

EmptyDict == [k \in {} |-> None]

\* d.get(k, default)
DictGet(d, k, default) == IF k \in DOMAIN d THEN d[k] ELSE default

\* d[k] = v
DictSet(d, k, v) == [x \in (DOMAIN d) \cup {k} |-> IF x = k THEN v ELSE d[x]]

\* d.setdefault(k, []).append(v)
DictAppend(d, k, v) == DictSet(d, k, Append(DictGet(d, k, <<>>), v))

\* sorted(S) for a set of issue keys
Sorted(S) == SelectSeq(KeyList, LAMBDA k : k \in S)

\* Series.unique(), as a set
Unique(df, col) == {df[i][col] : i \in DOMAIN df}

-----------------------------------------------------------------------------
(* The tracker *)

\* status, creation stamp and priority field of the issue with key k
StatusOf(k) == IF k = "VM-2" THEN "To Do" ELSE "Done"

CreatedOf(k) ==
    CASE k = "VM-1" -> <<1, "T09:00">>
      [] k = "VM-2" -> <<1, "T17:30">>
      [] OTHER      -> <<2, "T09:00">>

PriorityOf(k) == IF k = "VM-1" THEN ABSENT ELSE "High"

\* one issue of the search response: key and the requested fields
RawIssue(k, t, p, e) ==
    [key |-> k,
     status |-> StatusOf(k),
     issuetype |-> t,
     parent |-> p,
     customfield_10011 |-> e,
     created |-> CreatedOf(k),
     customfield_10043 |-> PriorityOf(k)]

\* issues of any shape, the ill-formed ones included: an epic that carries an
\* epic field, a task with a parent, a sub-task with an epic field of its own,
\* with no parent, or with a parent that is itself an epic or a sub-task
AnyIssues ==
    {RawIssue(k, "Epic", ABSENT, e) : k \in Keys, e \in {ABSENT, None, "VM-1"}}
    \cup {RawIssue(k, "Task", p, e) : k \in Keys, p \in {ABSENT, "VM-2"},
                                      e \in {ABSENT, None, "VM-1", "VM-3"}}
    \cup {RawIssue(k, "Sub-task", p, e) : k \in Keys, p \in {ABSENT, "VM-1", "VM-2"},
                                          e \in {ABSENT, None, "VM-1"}}

\* issues shaped as the tracker's hierarchy shapes them: an epic has neither
\* parent nor epic field, a task may name its epic, a sub-task names its parent
ShapedIssues ==
    {RawIssue(k, "Epic", ABSENT, ABSENT) : k \in Keys}
    \cup {RawIssue(k, "Task", ABSENT, e) : k \in Keys, e \in {ABSENT, "VM-1"}}
    \cup {RawIssue(k, "Sub-task", "VM-2", ABSENT) : k \in Keys}

\* the sequences of at most n issues of U with pairwise different keys
RECURSIVE IssueLists(_, _)
IssueLists(U, n) ==
    IF n = 0 THEN {<<>>}
    ELSE LET shorter == IssueLists(U, n - 1)
         IN  shorter \cup
             {Append(s, x) : s \in {l \in shorter : Len(l) = n - 1},
                             x \in U}

UniqueKeys(s) == \A i, j \in DOMAIN s : s[i].key = s[j].key => i = j

\* requests.get returns a response with status 200, returns one with another
\* status, or raises (no connection, timeout)
Outcomes == {"200", "500", "ConnectionError"}

-----------------------------------------------------------------------------
(* Record normalizer, app.py:37-48 *)

\* fields["created"][:10]: the date part of the stamp
DatePart(stamp) == stamp[1]

NormalizeIssue(issue) ==
    [Key       |-> issue.key,
     Status    |-> issue.status,
     IssueType |-> issue.issuetype,
     Parent    |-> IF issue.parent # ABSENT THEN issue.parent ELSE "",
     EpicLink  |-> IF issue.customfield_10011 # ABSENT
                   THEN issue.customfield_10011 ELSE "",
     Created   |-> DatePart(issue.created),
     Oncelik   |-> IF issue.customfield_10043 # ABSENT
                   THEN issue.customfield_10043 ELSE "Bilinmiyor"]

NormalizeAll(issues) == [i \in DOMAIN issues |-> NormalizeIssue(issues[i])]

-----------------------------------------------------------------------------
(* Hierarchy resolver, app.py:51-65 *)

TaskLike(r) == r.IssueType # "Sub-task" /\ r.IssueType # "Epic"

\* app.py:51: an entry with an empty list for every row of type Epic
InitialEpicMap(rs) ==
    [k \in {rs[i].Key : i \in {j \in DOMAIN rs : rs[j].IssueType = "Epic"}}
        |-> <<>>]

\* one iteration of the loop of app.py:55-61 on row i
MapStep(m, rs, i) ==
    LET r == rs[i] IN
    IF TaskLike(r)
    THEN [m EXCEPT !.task_map = DictSet(@, r.Key, i),
                   !.epic_map = IF Truthy(r.EpicLink)
                                THEN DictAppend(@, r.EpicLink, r.Key)
                                ELSE @]
    ELSE IF r.IssueType = "Sub-task" /\ Truthy(r.Parent)
    THEN [m EXCEPT !.subtask_map = DictAppend(@, r.Parent, i)]
    ELSE m

\* the maps after the iterations on rows 1..n
RECURSIVE BuildMaps(_, _)
BuildMaps(rs, n) ==
    IF n = 0
    THEN [epic_map |-> InitialEpicMap(rs), task_map |-> EmptyDict,
          subtask_map |-> EmptyDict]
    ELSE MapStep(BuildMaps(rs, n - 1), rs, n)

\* BackFillStep as it would be if the back-fill ran in the loop that builds
\* task_map: a parent is found only if it arrived before the sub-task
BackFillStep_ParentSeenFirst(rs, tm, i) ==
    IF rs[i].IssueType = "Sub-task" /\ rs[i].Parent \in DOMAIN tm /\ tm[rs[i].Parent] < i
    THEN [rs EXCEPT ![i].EpicLink = rs[tm[rs[i].Parent]].EpicLink]
    ELSE rs

\* BackFillStep as it would be with task_map.get(parent, {}).get("Epic Link", ""):
\* a sub-task whose parent is unknown loses its Epic Link
BackFillStep_ClearsOrphan(rs, tm, i) ==
    IF rs[i].IssueType = "Sub-task"
    THEN [rs EXCEPT ![i].EpicLink = IF rs[i].Parent \in DOMAIN tm
                                    THEN rs[tm[rs[i].Parent]].EpicLink ELSE ""]
    ELSE rs

\* one iteration of the loop of app.py:63-65 on row i
BackFillStep(rs, tm, i) ==
    IF rs[i].IssueType = "Sub-task" /\ rs[i].Parent \in DOMAIN tm
    THEN [rs EXCEPT ![i].EpicLink = rs[tm[rs[i].Parent]].EpicLink]
    ELSE rs

\* BackFill as it would be without the loop of app.py:63-65
BackFill_Skipped(rs, tm, n) == rs

\* the rows after the iterations on rows 1..n
RECURSIVE BackFill(_, _, _)
BackFill(rs, tm, n) ==
    IF n = 0 THEN rs ELSE BackFillStep(BackFill(rs, tm, n - 1), tm, n)

-----------------------------------------------------------------------------
(* Sidebar widgets, app.py:76-92 *)

\* st.selectbox(label, options) if options else None: the first option on the
\* first run, the option the user chose on a rerun
SelectBox(options, sess) ==
    IF options = <<>> THEN {None}
    ELSE IF sess = "first" THEN {options[1]} ELSE Range(options)

\* st.multiselect(label, options, default=options)
MultiSelect(options, sess) ==
    IF sess = "first" THEN {options} ELSE SUBSET options

Min(S) == CHOOSE x \in S : \A y \in S : x <= y

Max(S) == CHOOSE x \in S : \A y \in S : x >= y

\* st.date_input(label, (min_date, max_date)): the pair of the defaults on the
\* first run; on a rerun a pair start <= end or, while the user is still
\* picking the range, a tuple of one date or of none
DateInput(df, sess) ==
    IF sess = "first"
    THEN {<<Min(Unique(df, "Created")), Max(Unique(df, "Created"))>>}
    ELSE {d \in Days \X Days : d[1] <= d[2]} \cup {<<d>> : d \in Days} \cup {<<>>}

\* app.py:76
EpicKeys(em) == Sorted({e \in DOMAIN em : Truthy(e)})

\* app.py:84
SubtaskKeys(df, subtask_list) == [i \in DOMAIN subtask_list |-> df[subtask_list[i]].Key]

NoWidgets ==
    [selected_epic |-> None, selected_task |-> None, selected_subtask |-> None,
     issue_types |-> {}, status_filter |-> {}, oncelik_filter |-> {},
     date_range |-> <<0, 0>>]

-----------------------------------------------------------------------------
(* Filter engine, app.py:95-110 *)

\* app.py:97-98
PinEpic(df, w) ==
    IF Truthy(w.selected_epic)
    THEN SelectSeq(df, LAMBDA r : r.EpicLink = w.selected_epic)
    ELSE df

\* PinTask as it would be without the Parent disjunct
PinTask_KeyOnly(df, w) ==
    IF Truthy(w.selected_task)
    THEN SelectSeq(df, LAMBDA r : r.Key = w.selected_task)
    ELSE df

\* app.py:99-100
PinTask(df, w) ==
    IF Truthy(w.selected_task)
    THEN SelectSeq(df, LAMBDA r : r.Key = w.selected_task \/ r.Parent = w.selected_task)
    ELSE df

\* app.py:101-102
PinSubtask(df, w) ==
    IF Truthy(w.selected_subtask)
    THEN SelectSeq(df, LAMBDA r : r.Key = w.selected_subtask)
    ELSE df

\* app.py:97-102
PinFilter(df, w) == PinSubtask(PinTask(PinEpic(df, w), w), w)

\* FieldFilter as it would be with an exclusive end of the date range
FieldFilter_ExclusiveEnd(df, w) ==
    SelectSeq(df, LAMBDA r :
        /\ r.IssueType \in w.issue_types
        /\ r.Status \in w.status_filter
        /\ r.Oncelik \in w.oncelik_filter
        /\ r.Created >= w.date_range[1]
        /\ r.Created < w.date_range[2])

\* app.py:104-110
FieldFilter(df, w) ==
    SelectSeq(df, LAMBDA r :
        /\ r.IssueType \in w.issue_types
        /\ r.Status \in w.status_filter
        /\ r.Oncelik \in w.oncelik_filter
        /\ r.Created >= w.date_range[1]
        /\ r.Created <= w.date_range[2])

-----------------------------------------------------------------------------
(* Progress aggregator, app.py:147-158 *)

\* EpicIssues as it would be without the notna() test
EpicIssues_EmptyStringOnly(df) == SelectSeq(df, LAMBDA r : r.EpicLink # "")

\* EpicIssues as it would be without the test against ""
EpicIssues_NotNaOnly(df) == SelectSeq(df, LAMBDA r : r.EpicLink # None)

\* app.py:147
EpicIssues(df) == SelectSeq(df, LAMBDA r : r.EpicLink # None /\ r.EpicLink # "")

\* the number of rows of df in the group of Epic Link e, all of them or
\* those whose Status is "Done"
GroupCount(df, e, done_only) ==
    Cardinality({i \in DOMAIN df :
                    (df[i].EpicLink = e) /\ (done_only => (df[i].Status = "Done"))})

\* Progress as it would be with the integer division done // total
Progress_IntegerDivision(done, total) ==
    IF total > 0 THEN 1000 * (done \div total) ELSE 0

\* round(100 * done / total, 1), in tenths of a percent; a tie goes to the
\* even neighbour as the round of Python and numpy does
Progress(done, total) ==
    IF total > 0
    THEN LET q == (1000 * done) \div total
             r == (1000 * done) % total
         IN  IF 2 * r < total THEN q
             ELSE IF 2 * r > total THEN q + 1
             ELSE IF q % 2 = 0 THEN q ELSE q + 1
    ELSE 0

\* app.py:148-158: one row of the summary for every Epic Link value
EpicSummary(df) ==
    LET ei == EpicIssues(df) IN
    {[EpicLink     |-> e,
      total_issues |-> GroupCount(ei, e, FALSE),
      done_issues  |-> GroupCount(ei, e, TRUE),
      Progress     |-> Progress(GroupCount(ei, e, TRUE), GroupCount(ei, e, FALSE))]
     : e \in Unique(ei, "EpicLink")}

-----------------------------------------------------------------------------
(* The script *)

\* st.warning of app.py:69
NoDataWarning == "Veri cekilemedi."

\* The project holds at most MaxRecs issues with pairwise different keys.  The
\* first run of a session, with every widget at its default, is explored for
\* issues of any shape; the reruns, with every setting of the widgets, for
\* issues of the tracker's shapes.
Init ==
    /\ \/ /\ session = "first"
          /\ server \in {l \in IssueLists(AnyIssues, MaxRecs) : UniqueKeys(l)}
       \/ /\ session = "rerun"
          /\ server \in {l \in IssueLists(ShapedIssues, MaxRecs) : UniqueKeys(l)}
    /\ outcome = None
    /\ pc = "fetch"
    /\ data = EmptyDict
    /\ rows = <<>>
    /\ epic_map = EmptyDict
    /\ task_map = EmptyDict
    /\ subtask_map = EmptyDict
    /\ widgets = NoWidgets
    /\ pinned_df = <<>>
    /\ filtered_df = <<>>
    /\ epic_summary = {}
    /\ excel_data = <<>>
    /\ report = ""

\* app.py:17-25 and 32: an exception of requests.get ends the script
Fetch ==
    /\ pc = "fetch"
    /\ \E o \in Outcomes :
        /\ outcome' = o
        /\ IF o = "ConnectionError"
           THEN /\ pc' = "crashed"
                /\ report' = "ConnectionError"
                /\ data' = data
           ELSE /\ pc' = "normalize"
                /\ report' = report
                /\ data' = IF o = "200" THEN [issues |-> server] ELSE EmptyDict
    /\ UNCHANGED <<server, session, rows, epic_map, task_map, subtask_map,
                   widgets, pinned_df, filtered_df, epic_summary, excel_data>>

\* app.py:35-48
Normalize ==
    /\ pc = "normalize"
    /\ rows' = NormalizeAll(DictGet(data, "issues", <<>>))
    /\ pc' = "resolve"
    /\ UNCHANGED <<server, outcome, session, data, epic_map, task_map, subtask_map,
                   widgets, pinned_df, filtered_df, epic_summary, excel_data, report>>

\* app.py:51-71: the three maps, the back-fill of the sub-tasks, and the stop
\* on an empty table
Resolve ==
    /\ pc = "resolve"
    /\ LET m == BuildMaps(rows, Len(rows)) IN
        /\ epic_map' = m.epic_map
        /\ task_map' = m.task_map
        /\ subtask_map' = m.subtask_map
        /\ rows' = BackFill(rows, m.task_map, Len(rows))
    /\ IF rows = <<>>
       THEN /\ report' = NoDataWarning
            /\ pc' = "stopped"
       ELSE /\ report' = report
            /\ pc' = "widgets"
    /\ UNCHANGED <<server, outcome, session, data,
                   widgets, pinned_df, filtered_df, epic_summary, excel_data>>

\* app.py:76-92
Widgets ==
    /\ pc = "widgets"
    /\ \E e \in SelectBox(EpicKeys(epic_map), session) :
       \E t \in SelectBox(DictGet(epic_map, e, <<>>), session) :
       \E u \in SelectBox(SubtaskKeys(rows, DictGet(subtask_map, t, <<>>)), session) :
       \E ty \in MultiSelect(Unique(rows, "IssueType"), session) :
       \E st \in MultiSelect(Unique(rows, "Status"), session) :
       \E on \in MultiSelect(Unique(rows, "Oncelik"), session) :
       \E dr \in DateInput(rows, session) :
          widgets' = [selected_epic |-> e, selected_task |-> t, selected_subtask |-> u,
                      issue_types |-> ty, status_filter |-> st, oncelik_filter |-> on,
                      date_range |-> dr]
    /\ pc' = "filter"
    /\ UNCHANGED <<server, outcome, session, data, rows, epic_map, task_map, subtask_map,
                   pinned_df, filtered_df, epic_summary, excel_data, report>>

\* app.py:95-110; date_range[0] or date_range[1] of a shorter tuple raises
Filter ==
    /\ pc = "filter"
    /\ \/ /\ Len(widgets.date_range) = 2
          /\ pinned_df' = PinFilter(rows, widgets)
          /\ filtered_df' = FieldFilter(PinFilter(rows, widgets), widgets)
          /\ pc' = "render"
          /\ report' = report
       \/ /\ Len(widgets.date_range) < 2
          /\ pinned_df' = PinFilter(rows, widgets)
          /\ filtered_df' = filtered_df
          /\ pc' = "crashed"
          /\ report' = "IndexError"
    /\ UNCHANGED <<server, outcome, session, data, rows, epic_map, task_map, subtask_map,
                   widgets, epic_summary, excel_data>>

\* app.py:136-176: the charts, the progress of the epics, the export.  When no
\* row has an Epic Link the summary has no rows, apply(axis=1) returns a frame
\* instead of a column, and the assignment of app.py:155 succeeds or raises
\* with the version of pandas.
Render ==
    /\ pc = "render"
    /\ epic_summary' = EpicSummary(rows)
    /\ \/ /\ excel_data' = filtered_df
          /\ pc' = "done"
          /\ report' = report
       \/ /\ EpicIssues(rows) = <<>>
          /\ excel_data' = excel_data
          /\ pc' = "crashed"
          /\ report' = "ValueError"
    /\ UNCHANGED <<server, outcome, session, data, rows, epic_map, task_map, subtask_map,
                   widgets, pinned_df, filtered_df>>

Next ==
    \/ Fetch
    \/ Normalize
    \/ Resolve
    \/ Widgets
    \/ Filter
    \/ Render

Spec == Init /\ [][Next]_vars

-----------------------------------------------------------------------------
(* Properties *)

\* the hierarchy pass (and the stop on an empty table) has just run; the
\* later steps leave the rows as they are
Resolved == pc \in {"stopped", "widgets"}

\* the widgets have been read and the filters applied
Filtered == pc \in {"render", "done"}

\* the issues the rows were made of, row i from issue i
Issues == DictGet(data, "issues", <<>>)

RowKeys == {rows[i].Key : i \in DOMAIN rows}

IsSubtask(i) == rows[i].IssueType = "Sub-task"

\* C1 as stated: after the hierarchy pass every sub-task whose parent key is
\* the key of a row of the set carries the Epic Link of that row.
C1_PropagationFromAnyParent ==
    Resolved =>
        \A i, j \in DOMAIN rows :
            (IsSubtask(i) /\ rows[i].Parent = rows[j].Key)
                => rows[i].EpicLink = rows[j].EpicLink

\* C1 amended: after the hierarchy pass, in every arrival order, every sub-task
\* whose parent key is the key of a task-like row (neither Epic nor Sub-task)
\* carries the Epic Link of that row.
C1_PropagationFromTask ==
    Resolved =>
        \A i, j \in DOMAIN rows :
            (IsSubtask(i) /\ rows[i].Parent = rows[j].Key /\ TaskLike(rows[j]))
                => rows[i].EpicLink = rows[j].EpicLink

\* a sub-task that arrived before its parent task took over the parent's epic,
\* which is not the epic field the tracker sent for the sub-task
C1_Witness ==
    /\ Resolved
    /\ \E i, j \in DOMAIN rows :
        /\ i < j
        /\ IsSubtask(i) /\ rows[i].Parent = rows[j].Key /\ TaskLike(rows[j])
        /\ Truthy(rows[j].EpicLink)
        /\ NormalizeIssue(Issues[i]).EpicLink # rows[j].EpicLink
        /\ rows[i].EpicLink = rows[j].EpicLink

\* C2 as stated: after the hierarchy pass every sub-task whose parent key is
\* the key of no row has the Epic Link "".
C2_OrphanIsEmpty ==
    Resolved =>
        \A i \in DOMAIN rows :
            (IsSubtask(i) /\ rows[i].Parent \notin RowKeys) => rows[i].EpicLink = ""

\* C2 amended: after the hierarchy pass every sub-task whose parent key is the
\* key of no row keeps the Epic Link the normalizer gave it, which is "" when
\* the tracker sent no epic field for it.
C2_OrphanKeepsNormalized ==
    Resolved =>
        \A i \in DOMAIN rows :
            (IsSubtask(i) /\ rows[i].Parent \notin RowKeys)
                => /\ rows[i].EpicLink = NormalizeIssue(Issues[i]).EpicLink
                   /\ Issues[i].customfield_10011 = ABSENT => rows[i].EpicLink = ""

\* an orphan sub-task (its parent is not in the set) next to a task with
\* another epic: both the case with and the case without an epic field
C2_Witness ==
    /\ Resolved
    /\ \E i \in DOMAIN rows :
        /\ IsSubtask(i) /\ Truthy(rows[i].Parent) /\ rows[i].Parent \notin RowKeys
        /\ rows[i].EpicLink = "VM-1"
    /\ \E i \in DOMAIN rows :
        /\ IsSubtask(i) /\ rows[i].Parent \notin RowKeys
        /\ rows[i].EpicLink = ""

\* the predicates the widgets make active, each on one row
EpicPinOk(r, w) == Truthy(w.selected_epic) => r.EpicLink = w.selected_epic

TaskPinOk(r, w) ==
    Truthy(w.selected_task) => (r.Key = w.selected_task \/ r.Parent = w.selected_task)

SubtaskPinOk(r, w) == Truthy(w.selected_subtask) => r.Key = w.selected_subtask

TypeOk(r, w) == r.IssueType \in w.issue_types

StatusOk(r, w) == r.Status \in w.status_filter

PriorityOk(r, w) == r.Oncelik \in w.oncelik_filter

DateOk(r, w) == r.Created \in w.date_range[1] .. w.date_range[2]

\* how many of the seven predicates row r fails
Failures(r, w) ==
    Cardinality({n \in 1..7 :
        \/ n = 1 /\ ~EpicPinOk(r, w)
        \/ n = 2 /\ ~TaskPinOk(r, w)
        \/ n = 3 /\ ~SubtaskPinOk(r, w)
        \/ n = 4 /\ ~TypeOk(r, w)
        \/ n = 5 /\ ~StatusOk(r, w)
        \/ n = 6 /\ ~PriorityOk(r, w)
        \/ n = 7 /\ ~DateOk(r, w)})

\* C3: for every configuration of the widgets the filtered table is exactly
\* the rows of the resolved table that satisfy every active predicate, in
\* their order: none that fails a predicate is kept, none that satisfies all
\* of them is dropped.
C3_FilterConjunction ==
    Filtered =>
        filtered_df = SelectSeq(rows, LAMBDA r : Failures(r, widgets) = 0)

\* the user narrowed the widgets; a row that fails exactly one predicate, the
\* inclusive date range, is dropped, and a row created on the last day of the
\* range is kept
C3_Witness ==
    /\ pc = "done"
    /\ session = "rerun"
    /\ \E i \in DOMAIN rows :
        /\ Failures(rows[i], widgets) = 1
        /\ ~DateOk(rows[i], widgets)
        /\ rows[i] \notin Range(filtered_df)
    /\ \E i \in DOMAIN filtered_df : filtered_df[i].Created = widgets.date_range[2]

\* C4: the pins narrow the table in three steps: with epic E pinned exactly
\* the rows whose Epic Link is E are kept; with task T pinned as well, of
\* those exactly the row with key T and the rows whose Parent is T; with
\* sub-task U pinned as well, of those exactly the row with key U.  A task is
\* pinned only under a pinned epic, a sub-task only under a pinned task.
C4_PinNarrowing ==
    Filtered =>
        /\ Truthy(widgets.selected_task) => Truthy(widgets.selected_epic)
        /\ Truthy(widgets.selected_subtask) => Truthy(widgets.selected_task)
        /\ \A i \in DOMAIN pinned_df :
            /\ EpicPinOk(pinned_df[i], widgets)
            /\ TaskPinOk(pinned_df[i], widgets)
            /\ SubtaskPinOk(pinned_df[i], widgets)
        /\ pinned_df = SelectSeq(rows, LAMBDA r :
                           EpicPinOk(r, widgets) /\ TaskPinOk(r, widgets)
                           /\ SubtaskPinOk(r, widgets))

\* the three pins are set: of several rows of the pinned epic the pinned
\* sub-task alone is left
C4_Witness ==
    /\ Filtered
    /\ Truthy(widgets.selected_epic)
    /\ Truthy(widgets.selected_task)
    /\ Truthy(widgets.selected_subtask)
    /\ Len(PinEpic(rows, widgets)) > 1
    /\ Len(pinned_df) = 1
    /\ pinned_df[1].Key = widgets.selected_subtask

RECURSIVE SumTotals(_)
SumTotals(S) ==
    IF S = {} THEN 0
    ELSE LET g == CHOOSE x \in S : TRUE IN g.total_issues + SumTotals(S \ {g})

\* C5: in the progress table no group belongs to an empty Epic Link ("" or
\* None), a row with an empty Epic Link is in no group, and the totals of
\* the groups add up to the number of rows whose Epic Link is not empty.
C5_AggregationExclusion ==
    pc = "done" =>
        /\ \A g \in epic_summary : Truthy(g.EpicLink)
        /\ \A g1, g2 \in epic_summary : g1.EpicLink = g2.EpicLink => g1 = g2
        /\ \A g \in epic_summary :
              g.total_issues =
                  Cardinality({i \in DOMAIN rows : rows[i].EpicLink = g.EpicLink})
        /\ SumTotals(epic_summary)
              = Cardinality({i \in DOMAIN rows : Truthy(rows[i].EpicLink)})

\* a table with a row without Epic Link and rows of a group
C5_Witness ==
    /\ pc = "done"
    /\ \E i \in DOMAIN rows : rows[i].EpicLink = ""
    /\ \E j \in DOMAIN rows : Truthy(rows[j].EpicLink)
    /\ epic_summary # {}

\* C6: for every group Progress (%) is 100 * done / total rounded to one
\* decimal (here in tenths of a percent: within half a tenth of the exact
\* quotient), lies between 0 and 100, is 0 when done is 0 and 100 when done
\* equals total; done counts the rows of the group whose Status is "Done"
\* and never exceeds total.
C6_ProgressBounds ==
    pc = "done" =>
        \A g \in epic_summary :
            /\ g.done_issues =
                  Cardinality({i \in DOMAIN rows : /\ rows[i].EpicLink = g.EpicLink
                                                   /\ rows[i].Status = "Done"})
            /\ g.total_issues > 0
            /\ 0 <= g.done_issues /\ g.done_issues <= g.total_issues
            /\ 0 <= g.Progress /\ g.Progress <= 1000
            /\ 2 * (g.Progress * g.total_issues - 1000 * g.done_issues) <= g.total_issues
            /\ 2 * (1000 * g.done_issues - g.Progress * g.total_issues) <= g.total_issues
            /\ g.done_issues = 0 => g.Progress = 0
            /\ g.done_issues = g.total_issues => g.Progress = 1000

\* a group that is partly done
C6_Witness ==
    /\ pc = "done"
    /\ \E g \in epic_summary :
        /\ 0 < g.done_issues /\ g.done_issues < g.total_issues
        /\ 0 < g.Progress /\ g.Progress < 1000

\* the epic field the tracker sent for row i is missing or null
NoEpicField(i) == Issues[i].customfield_10011 \in {ABSENT, None}

IsEpic(i) == rows[i].IssueType = "Epic"

\* C7 as stated: a row of type Epic has no Epic Link after normalization and
\* resolution, and no group of the progress table counts it in its total or
\* in its done count.
C7_EpicsNeverCounted ==
    /\ Resolved => \A i \in DOMAIN rows : IsEpic(i) => ~Truthy(rows[i].EpicLink)
    /\ pc = "done" =>
        \A g \in epic_summary :
            /\ g.total_issues =
                  Cardinality({i \in DOMAIN rows : /\ ~IsEpic(i)
                                                   /\ rows[i].EpicLink = g.EpicLink})
            /\ g.done_issues =
                  Cardinality({i \in DOMAIN rows : /\ ~IsEpic(i)
                                                   /\ rows[i].EpicLink = g.EpicLink
                                                   /\ rows[i].Status = "Done"})

\* C7 amended: a row of type Epic keeps through the resolution the Epic Link
\* the normalizer gave it; an Epic for which the tracker sent no epic field
\* (missing or null) has no Epic Link and no group counts it in its total or
\* in its done count.
C7_EpicsWithoutFieldNeverCounted ==
    /\ Resolved =>
        \A i \in DOMAIN rows :
            IsEpic(i) => /\ rows[i].EpicLink = NormalizeIssue(Issues[i]).EpicLink
                         /\ NoEpicField(i) => ~Truthy(rows[i].EpicLink)
    /\ pc = "done" =>
        \A g \in epic_summary :
            /\ g.total_issues =
                  Cardinality({i \in DOMAIN rows : /\ ~(IsEpic(i) /\ NoEpicField(i))
                                                   /\ rows[i].EpicLink = g.EpicLink})
            /\ g.done_issues =
                  Cardinality({i \in DOMAIN rows : /\ ~(IsEpic(i) /\ NoEpicField(i))
                                                   /\ rows[i].EpicLink = g.EpicLink
                                                   /\ rows[i].Status = "Done"})

\* an Epic without epic field is the grouping key of a group that counts
\* another row and not the Epic
C7_Witness ==
    /\ pc = "done"
    /\ \E i \in DOMAIN rows :
        /\ IsEpic(i) /\ Issues[i].customfield_10011 = ABSENT
        /\ \E g \in epic_summary : g.EpicLink = rows[i].Key /\ g.total_issues = 1
        /\ Len(rows) = 2

\* C8: when the fetch fails, with a status other than 200 or with an
\* exception of the transport, no row is made, no widget, filter, chart,
\* aggregation or export runs, and the script ends on the report that no
\* data could be fetched.
C8_FetchFailureReportsNoData ==
    outcome \in {"500", "ConnectionError"} =>
        /\ rows = <<>>
        /\ pc \in {"normalize", "resolve", "stopped", "crashed"}
        /\ filtered_df = <<>> /\ epic_summary = {} /\ excel_data = <<>>
        /\ pc \in {"stopped", "crashed"} => report = NoDataWarning

\* C9: a fetch that succeeds with zero issues stops before the filters and
\* the aggregation, on a report other than the one of a failed fetch.
C9_EmptyResultReportedDistinctly ==
    (outcome = "200" /\ server = <<>>) =>
        /\ pc \in {"normalize", "resolve", "stopped"}
        /\ pc = "stopped" => report # NoDataWarning

\* C10: the pins on offer are consistent.  Every task on offer under epic E is
\* a task-like row whose Epic Link is E; every sub-task on offer under such a
\* task T is a Sub-task row whose Parent is T and whose Epic Link is E.  Hence
\* the pin filters keep a pinned task, and they keep of a pinned sub-task
\* exactly its one row.
C10_PinsConsistent ==
    /\ Resolved =>
        \A e \in DOMAIN epic_map : \A n \in DOMAIN epic_map[e] :
            LET t == epic_map[e][n] IN
            /\ \E i \in DOMAIN rows :
                  rows[i].Key = t /\ TaskLike(rows[i]) /\ rows[i].EpicLink = e
            /\ \A m \in DOMAIN DictGet(subtask_map, t, <<>>) :
                  LET i == subtask_map[t][m] IN
                  IsSubtask(i) /\ rows[i].Parent = t /\ rows[i].EpicLink = e
    /\ Filtered =>
        /\ Truthy(widgets.selected_task) /\ ~Truthy(widgets.selected_subtask)
              => \E i \in DOMAIN pinned_df : pinned_df[i].Key = widgets.selected_task
        /\ Truthy(widgets.selected_subtask)
              => /\ Len(pinned_df) = 1
                 /\ pinned_df[1].Key = widgets.selected_subtask

\* a sub-task is pinned under its task and epic, and it is the back-fill that
\* gave it the epic: the tracker sent no epic field for it
C10_Witness ==
    /\ Filtered
    /\ Truthy(widgets.selected_subtask)
    /\ \E i \in DOMAIN rows :
        /\ rows[i].Key = widgets.selected_subtask
        /\ Issues[i].customfield_10011 = ABSENT
        /\ rows[i].EpicLink = widgets.selected_epic
    /\ pinned_df # <<>>

====
